---- MODULE Spec2Model ----
(***************************************************************************)
(* Verification model of jo56/moonchild: the freeform collage canvas.      *)
(*                                                                         *)
(* Two implementations of the draggable CollageView are in the sources:    *)
(*   impl = "direct" : src/unnamed/part_003 (per-gesture document          *)
(*                     listeners, direct DOM mutation, z-counter, pan)     *)
(*   impl = "state"  : src/src/components/CollageView.tsx (dragState in    *)
(*                     React state, listeners owned by a useEffect)        *)
(* Both share one state shape; Init chooses the implementation and the     *)
(* variant prop, every action dispatches on them.                          *)
(*                                                                         *)
(* A React closure sees the state of the render that created it.  The      *)
(* listeners a handler registers on document therefore carry a snapshot    *)
(* (canvasSize, nextZIndex, dragState) taken when they were created; the   *)
(* model stores that snapshot in the listener record.                      *)
(***************************************************************************)
EXTENDS Integers, Sequences, FiniteSets, TLC

VARIABLES
    impl,            \* which CollageView source is mounted
    variant,         \* the variant prop: "large" | "stack"
    mounted,         \* the component is in the document
    canvasSize,      \* useState<CanvasSize>
    scroll,          \* container.scrollLeft / scrollTop
    cursor,          \* container.style.cursor
    elemStyle,       \* per item: left, top, zIndex, pointerEvents as painted
    imageZIndices,   \* useState<Record<string, number>>, 0 = no entry
    nextZIndex,      \* useState(100)
    dragState,       \* useState<DragState>
    customPositions, \* useState<Record<string,{x,y}>>, NullPos = no entry
    listeners,       \* document mousemove/mouseup listener pairs, in registration order
    clicked,         \* items onGifClick has been invoked with
    events,          \* number of input events delivered so far
    lastEvent,       \* kind of the last input event
    pointer,         \* history: clientX / clientY of the last pointer-down or pointer-move
    lastDown,        \* history: button, shiftKey and target item (0 = background) of the last pointer-down
    gesture,         \* history: item of the last pointer-down on an item, where it was painted before, and whether a move followed
    committed,       \* history: items whose drag has been committed
    lastCommitted,   \* history: item of the last commit, 0 = none
    lastSet,         \* history: candidate and snapshot of the last setCanvasSize call of a move
    cmpBound,        \* history: the bound the last drag move handler compared against
    growths          \* history: the width changes observed on moves and releases

cvars == <<impl, variant, mounted, canvasSize, scroll, cursor, elemStyle, imageZIndices,
          nextZIndex, dragState, customPositions, listeners, clicked, events, lastEvent,
          pointer, lastDown, gesture, committed, lastCommitted, lastSet, cmpBound, growths>>

\* IrregularCollage (src/unnamed/part_007), the position planner
VARIABLES
    media,           \* the media prop: the ids of the items, in catalog order
    innerWidth,      \* window.innerWidth
    phase,           \* where the pass is: idle, probing, sizing, placing, returned, done
    shuffled,        \* shuffleArray(media)
    dimensions,      \* per item the resolved loadImageDimensions promise, Pending before
    itemsWithSizes,  \* itemsWithSizes, and after the sort sortedItems
    positions,       \* positions (and occupiedAreas, pushed in lockstep)
    placedBy,        \* history: the path of findBestPosition that placed each position
    containerWidth,  \* useState(3000)
    containerHeight, \* useState(3000)
    positionedMedia, \* useState<PositionedMedia[]>([])
    probeErrors,     \* history: the items whose probe signalled onerror in this pass
    outOfOrder       \* history: some probe of this pass settled before a probe started earlier

pvars == <<media, innerWidth, phase, shuffled, dimensions, itemsWithSizes, positions,
           placedBy, containerWidth, containerHeight, positionedMedia, probeErrors, outOfOrder>>

\* App (src/src/App.tsx, the version with six view modes) and its Lightbox
VARIABLES
    viewMode,             \* useState('pinterest')
    isLightboxOpen,       \* useState(false)
    lightboxGif,          \* useState<GifItem | null>(null), 0 = null
    isZoomed,             \* Lightbox: useState(false)
    isMusicPlayerVisible, \* useState(true)
    imageRefreshKey,      \* useState(0)
    remounted,            \* history: the elements the last event gave another type or key
    trail                 \* history: the layout, Shift and R presses in a row with the lightbox closed, each with the state before it

avars == <<viewMode, isLightboxOpen, lightboxGif, isZoomed, isMusicPlayerVisible,
           imageRefreshKey, remounted, trail>>

vars == <<cvars, pvars, avars>>

Max(a, b) == IF a >= b THEN a ELSE b
Min(a, b) == IF a <= b THEN a ELSE b

(***************************************************************************)
(* Bounds of the model.                                                    *)
(***************************************************************************)
MaxEvents == 5

\* indexes into orderedGifs
Items == {1, 2}

\* window.innerWidth x window.innerHeight; the container is 100vw x 100vh at (0,0)
Viewport == [w |-> 1000, h |-> 800]

\* pointer positions (clientX, clientY) the input events are drawn from
Pointers == {<<500, 400>>, <<950, 760>>, <<60, 400>>}

\* scroll offsets native scrolling (wheel, scrollbar) is drawn from
ScrollStops == {[left |-> 9000, top |-> 9200], [left |-> 0, top |-> 0]}

\* where the stylesheet classes large-item-N put the items, and their size
CssRect == (1 :> [x |-> 9400, y |-> 9500, w |-> 200, h |-> 200]) @@
           (2 :> [x |-> 9900, y |-> 9900, w |-> 100, h |-> 100])

(***************************************************************************)
(* Program constants.                                                      *)
(***************************************************************************)
MinCanvas == 10000
ViewportFactor == 10
InitialZIndex == 100
buffer == 500
scrollMargin == 100
scrollStep == 12
dragZIndex == 10000
expandThreshold == 300
expandAmount == 2000
stateDragZIndex == 1000

\* no pointer-down yet
NoDown == [button |-> 0, shiftKey |-> FALSE, target |-> 0]

NullPos == [x |-> -1, y |-> -1]

InitialCanvasSize ==
    [width  |-> Max(Viewport.w * ViewportFactor, MinCanvas),
     height |-> Max(Viewport.h * ViewportFactor, MinCanvas)]

InitialDragState ==
    [draggedItem |-> 0, isDragging |-> FALSE, startPos |-> NullPos,
     currentPos |-> NullPos, offset |-> NullPos]

InitialStyle ==
    [i \in Items |-> [left |-> CssRect[i].x, top |-> CssRect[i].y,
                      zIndex |-> 0, pointerEvents |-> "auto"]]

NoSet == [candX |-> 0, candY |-> 0, capW |-> 0, capH |-> 0]

(***************************************************************************)
(* The browser: scroll clamping and hit testing.                           *)
(***************************************************************************)
\* a scroll offset is kept inside [0, scrollable size - client size]
ClampScroll(s, cs) ==
    [left |-> Max(0, Min(s.left, cs.width - Viewport.w)),
     top  |-> Max(0, Min(s.top, cs.height - Viewport.h))]

Covers(i, p) ==
    LET l == elemStyle[i].left - scroll.left
        t == elemStyle[i].top - scroll.top
    IN  /\ l <= p[1] /\ p[1] < l + CssRect[i].w
        /\ t <= p[2] /\ p[2] < t + CssRect[i].h

Hittable(p) == {i \in Items : Covers(i, p) /\ elemStyle[i].pointerEvents = "auto"}

Above(i, j) ==
    \/ elemStyle[i].zIndex > elemStyle[j].zIndex
    \/ elemStyle[i].zIndex = elemStyle[j].zIndex /\ i > j

\* the item a pointer event at p is dispatched to, 0 = the grid background
HitItem(p) ==
    IF Hittable(p) = {} THEN 0
    ELSE CHOOSE i \in Hittable(p) : \A j \in Hittable(p) \ {i} : Above(i, j)


(***************************************************************************)
(* The part of the state a handler run reads and writes, as one record, so *)
(* that the listeners of one event can run one after the other.            *)
(***************************************************************************)
Cur ==
    [canvasSize |-> canvasSize, scroll |-> scroll, cursor |-> cursor,
     elemStyle |-> elemStyle, imageZIndices |-> imageZIndices,
     nextZIndex |-> nextZIndex, dragState |-> dragState,
     customPositions |-> customPositions, listeners |-> listeners,
     committed |-> committed, lastCommitted |-> lastCommitted,
     lastSet |-> lastSet, cmpBound |-> cmpBound]

\* a listener pair and the values its closures captured when it was created
Listener(kind, index, off, cs, z, ds, startScroll, startP) ==
    [kind |-> kind, index |-> index, offsetX |-> off[1], offsetY |-> off[2],
     canvasSize |-> cs, nextZIndex |-> z, dragState |-> ds,
     startScrollLeft |-> startScroll.left, startScrollTop |-> startScroll.top,
     startX |-> startP[1], startY |-> startP[2]]

\* mutant: the scroll offset is left out of the candidate
ReadScroll_Origin(m) == [left |-> 0 * m.scroll.left, top |-> 0 * m.scroll.top]

\* container.scrollLeft / scrollTop as a handler reads them: a removed container has no scroll box
ReadScroll(m) == IF mounted THEN m.scroll ELSE [left |-> 0, top |-> 0]

\* mutant: the step grows with the depth of the pointer inside the margin
ScrollDelta_Proportional(mouseInViewport, containerExtent) ==
    IF mouseInViewport > containerExtent - scrollMargin
    THEN mouseInViewport - (containerExtent - scrollMargin)
    ELSE IF mouseInViewport < scrollMargin THEN mouseInViewport - scrollMargin
    ELSE 0

\* the +12 / -12 / 0 step of one axis of the auto-scroll
ScrollDelta(mouseInViewport, containerExtent) ==
    IF mouseInViewport > containerExtent - scrollMargin THEN scrollStep
    ELSE IF mouseInViewport < scrollMargin THEN 0 - scrollStep
    ELSE 0

(***************************************************************************)
(* impl = "direct": the closures handleMouseDown creates                   *)
(***************************************************************************)
\* mutant: the canvas grows by a fixed step over its previous size
handleMouseMove_FixedStep(s, p, m) ==
    LET sc   == ReadScroll(m)
        newX == p[1] - 0 + sc.left - s.offsetX
        newY == p[2] - 0 + sc.top - s.offsetY
        newCanvasWidth  == IF newX + buffer > m.canvasSize.width
                           THEN m.canvasSize.width + expandAmount ELSE m.canvasSize.width
        newCanvasHeight == IF newY + buffer > m.canvasSize.height
                           THEN m.canvasSize.height + expandAmount ELSE m.canvasSize.height
        grows == \/ newCanvasWidth > m.canvasSize.width
                 \/ newCanvasHeight > m.canvasSize.height
        cs1  == IF grows /\ mounted
                THEN [width |-> newCanvasWidth, height |-> newCanvasHeight]
                ELSE m.canvasSize
        sc1  == IF mounted
                THEN ClampScroll([left |-> sc.left + ScrollDelta(p[1], Viewport.w),
                                  top  |-> sc.top + ScrollDelta(p[2], Viewport.h)], cs1)
                ELSE m.scroll
    IN  [m EXCEPT
           !.canvasSize = cs1,
           !.scroll = sc1,
           !.elemStyle[s.index] = [left |-> newX, top |-> newY,
                                   zIndex |-> dragZIndex, pointerEvents |-> "none"],
           !.cmpBound = m.canvasSize,
           !.lastSet = IF grows /\ mounted
                       THEN [candX |-> newX, candY |-> newY,
                             capW |-> s.canvasSize.width, capH |-> s.canvasSize.height]
                       ELSE m.lastSet]

\* handleMouseMove of the drag session s, on a mousemove at p
handleMouseMove(s, p, m) ==
    LET sc   == ReadScroll(m)
        newX == p[1] - 0 + sc.left - s.offsetX
        newY == p[2] - 0 + sc.top - s.offsetY
        newCanvasWidth  == Max(s.canvasSize.width, newX + buffer)
        newCanvasHeight == Max(s.canvasSize.height, newY + buffer)
        grows == \/ newCanvasWidth > s.canvasSize.width
                 \/ newCanvasHeight > s.canvasSize.height
        cs1  == IF grows /\ mounted
                THEN [width |-> newCanvasWidth, height |-> newCanvasHeight]
                ELSE m.canvasSize
        sc1  == IF mounted
                THEN ClampScroll([left |-> sc.left + ScrollDelta(p[1], Viewport.w),
                                  top  |-> sc.top + ScrollDelta(p[2], Viewport.h)], cs1)
                ELSE m.scroll
    IN  [m EXCEPT
           !.canvasSize = cs1,
           !.scroll = sc1,
           !.elemStyle[s.index] = [left |-> newX, top |-> newY,
                                   zIndex |-> dragZIndex, pointerEvents |-> "none"],
           !.cmpBound = s.canvasSize,
           !.lastSet = IF grows /\ mounted
                       THEN [candX |-> newX, candY |-> newY,
                             capW |-> s.canvasSize.width, capH |-> s.canvasSize.height]
                       ELSE m.lastSet]

\* handleMouseUp of the drag session s
handleMouseUp(s, m) ==
    LET newZIndex == s.nextZIndex
    IN  [m EXCEPT
           !.imageZIndices[s.index] = IF mounted THEN newZIndex ELSE @,
           !.nextZIndex = IF mounted THEN @ + 1 ELSE @,
           !.elemStyle[s.index] = [@ EXCEPT !.pointerEvents = "auto", !.zIndex = newZIndex],
           !.listeners = SelectSeq(@, LAMBDA l : l # s),
           !.committed = @ \cup {s.index},
           !.lastCommitted = s.index]

\* mutant: the delta is applied to the current offset, not to the one at pan start
handleBackgroundMouseMove_Cumulative(s, p, m) ==
    LET deltaX == p[1] - s.startX
        deltaY == p[2] - s.startY
    IN  [m EXCEPT
           !.scroll = IF mounted
                      THEN ClampScroll([left |-> @.left - deltaX,
                                        top  |-> @.top - deltaY], m.canvasSize)
                      ELSE @]

\* handleBackgroundMouseMove of the pan session s
handleBackgroundMouseMove(s, p, m) ==
    LET deltaX == p[1] - s.startX
        deltaY == p[2] - s.startY
    IN  [m EXCEPT
           !.scroll = IF mounted
                      THEN ClampScroll([left |-> s.startScrollLeft - deltaX,
                                        top  |-> s.startScrollTop - deltaY], m.canvasSize)
                      ELSE @]

\* handleBackgroundMouseUp of the pan session s
handleBackgroundMouseUp(s, m) ==
    [m EXCEPT !.cursor = IF mounted THEN "grab" ELSE @,
              !.listeners = SelectSeq(@, LAMBDA l : l # s)]

\* handleBackgroundMouseDown, for a mousedown at p whose target is the item `target` (0 = background)
handleBackgroundMouseDown(p, button, shiftKey, target, m) ==
    LET isImageElement == target # 0
        shouldBackgroundDrag == button # 0 \/ ~isImageElement \/ shiftKey
    IN  IF variant # "large" THEN m
        ELSE IF ~shouldBackgroundDrag THEN m
        ELSE [m EXCEPT
                !.cursor = "grabbing",
                !.listeners = Append(@, Listener("pan", 0, <<0, 0>>, m.canvasSize,
                                                 m.nextZIndex, m.dragState, m.scroll, p))]

\* handleMouseDown(e, index), for a mousedown at p on item index
handleMouseDown(index, p, button, shiftKey, m) ==
    LET rectLeft == m.elemStyle[index].left - m.scroll.left
        rectTop  == m.elemStyle[index].top - m.scroll.top
        offsetX  == p[1] - rectLeft
        offsetY  == p[2] - rectTop
    IN  IF variant # "large" THEN m
        ELSE IF button # 0 \/ shiftKey
             THEN handleBackgroundMouseDown(p, button, shiftKey, index, m)
        ELSE [m EXCEPT
                !.listeners = Append(@, Listener("drag", index, <<offsetX, offsetY>>,
                                                 m.canvasSize, m.nextZIndex, m.dragState,
                                                 m.scroll, p))]

\* mutant: handleBackgroundMouseDown stops only the events that come from an item
backgroundStops_FromItem(button, shiftKey, target) ==
    variant = "large" /\ target # 0 /\ (button # 0 \/ shiftKey)

\* whether handleBackgroundMouseDown reaches its e.stopPropagation()
backgroundStops(button, shiftKey, target) ==
    variant = "large" /\ (button # 0 \/ target = 0 \/ shiftKey)

\* whether the item's handleMouseDown reaches an e.stopPropagation()
itemStops(button, shiftKey, index) ==
    /\ variant = "large"
    /\ (button # 0 \/ shiftKey) => backgroundStops(button, shiftKey, index)

\* the mousedown bubbles to the grid's onMouseDown and then to the container's,
\* unless a handler on the way has stopped it
Bubble(p, button, shiftKey, target, stopped, m) ==
    LET grid == IF stopped THEN m
                ELSE handleBackgroundMouseDown(p, button, shiftKey, target, m)
        gridStopped == stopped \/ backgroundStops(button, shiftKey, target)
    IN  IF gridStopped \/ variant # "large" THEN grid
        ELSE handleBackgroundMouseDown(p, button, shiftKey, target, grid)

(***************************************************************************)
(* impl = "state": src/src/components/CollageView.tsx                      *)
(***************************************************************************)
\* what getDragStyle and the item's style prop paint for the given state
getDragStyle(ds, cp) ==
    [i \in Items |->
        IF ds.draggedItem = i /\ ds.currentPos # NullPos /\ ds.offset # NullPos
           /\ variant = "large"
        THEN [left |-> ds.currentPos.x - ds.offset.x, top |-> ds.currentPos.y - ds.offset.y,
              zIndex |-> stateDragZIndex, pointerEvents |-> "none"]
        ELSE IF cp[i] # NullPos /\ variant = "large"
        THEN [left |-> cp[i].x, top |-> cp[i].y, zIndex |-> 1, pointerEvents |-> "auto"]
        ELSE [left |-> CssRect[i].x, top |-> CssRect[i].y, zIndex |-> 0,
              pointerEvents |-> "auto"]]

\* expandCanvasIfNeeded(position), in a closure that sees canvasSize = cs
expandCanvasIfNeeded(position, cs, m) ==
    LET w1 == IF position.x > cs.width - expandThreshold
              THEN cs.width + expandAmount ELSE cs.width
        h1 == IF position.y > cs.height - expandThreshold
              THEN cs.height + expandAmount ELSE cs.height
        newWidth  == IF position.x > cs.width
                     THEN Max(w1, position.x + expandAmount) ELSE w1
        newHeight == IF position.y > cs.height
                     THEN Max(h1, position.y + expandAmount) ELSE h1
    IN  IF variant # "large" THEN m
        ELSE IF newWidth # cs.width \/ newHeight # cs.height
        THEN [m EXCEPT
                !.canvasSize = [width |-> newWidth, height |-> newHeight],
                !.scroll = ClampScroll(@, [width |-> newWidth, height |-> newHeight]),
                !.lastSet = [candX |-> position.x, candY |-> position.y,
                             capW |-> cs.width, capH |-> cs.height]]
        ELSE m

\* handleMouseDown(e, index) of the state-driven component, with the effect that follows the render
handleMouseDownSD(index, p, m) ==
    LET ds == [draggedItem |-> index, isDragging |-> TRUE,
               startPos |-> [x |-> p[1], y |-> p[2]],
               currentPos |-> [x |-> p[1], y |-> p[2]],
               offset |-> [x |-> 100, y |-> 50]]
        depsChanged == \/ m.dragState.isDragging # ds.isDragging
                       \/ m.dragState.draggedItem # ds.draggedItem
    IN  IF variant # "large" THEN m
        ELSE [m EXCEPT
                !.dragState = ds,
                !.elemStyle = getDragStyle(ds, m.customPositions),
                !.listeners = IF depsChanged
                              THEN <<Listener("effect", index, <<100, 50>>, m.canvasSize,
                                              m.nextZIndex, ds, m.scroll, p)>>
                              ELSE @]

\* mutant: every pointer-move persists the position of the dragged item
handleMouseMoveSD_Persists(s, p, m) ==
    LET cap == s.dragState
        currentPos == [x |-> p[1] - 0 + m.scroll.left, y |-> p[2] - 0 + m.scroll.top]
        m1 == expandCanvasIfNeeded(currentPos, s.canvasSize, m)
        ds == [m.dragState EXCEPT !.currentPos = currentPos]
    IN  IF ~cap.isDragging \/ cap.draggedItem = 0 \/ variant # "large" THEN m
        ELSE [m1 EXCEPT
                !.dragState = ds,
                !.customPositions[cap.draggedItem] =
                    [x |-> currentPos.x - cap.offset.x, y |-> currentPos.y - cap.offset.y],
                !.elemStyle = getDragStyle(ds, m.customPositions),
                !.cmpBound = s.canvasSize]

\* handleMouseMove of the effect whose closure s was created in
handleMouseMoveSD(s, p, m) ==
    LET cap == s.dragState
        currentPos == [x |-> p[1] - 0 + m.scroll.left, y |-> p[2] - 0 + m.scroll.top]
        m1 == expandCanvasIfNeeded(currentPos, s.canvasSize, m)
        ds == [m.dragState EXCEPT !.currentPos = currentPos]
    IN  IF ~cap.isDragging \/ cap.draggedItem = 0 \/ variant # "large" THEN m
        ELSE [m1 EXCEPT
                !.dragState = ds,
                !.elemStyle = getDragStyle(ds, m.customPositions),
                !.cmpBound = s.canvasSize]

\* handleMouseUp of the effect whose closure s was created in
handleMouseUpSD(s, m) ==
    LET cap == s.dragState
        finalPos == [x |-> cap.currentPos.x - cap.offset.x,
                     y |-> cap.currentPos.y - cap.offset.y]
        m1 == expandCanvasIfNeeded(finalPos, s.canvasSize, m)
        cp == [m.customPositions EXCEPT ![cap.draggedItem] = finalPos]
    IN  IF cap.isDragging /\ cap.currentPos # NullPos /\ cap.draggedItem # 0
           /\ variant = "large"
        THEN [m1 EXCEPT
                !.customPositions = cp,
                !.dragState = InitialDragState,
                !.elemStyle = getDragStyle(InitialDragState, cp),
                !.listeners = <<>>,
                !.committed = @ \cup {cap.draggedItem},
                !.lastCommitted = cap.draggedItem]
        ELSE m

(***************************************************************************)
(* Event dispatch: the listeners registered on document when the event is  *)
(* dispatched run in registration order.                                   *)
(***************************************************************************)
RunMove(s, p, m) ==
    IF s.kind = "drag" THEN handleMouseMove(s, p, m)
    ELSE IF s.kind = "pan" THEN handleBackgroundMouseMove(s, p, m)
    ELSE handleMouseMoveSD(s, p, m)

RunUp(s, m) ==
    IF s.kind = "drag" THEN handleMouseUp(s, m)
    ELSE IF s.kind = "pan" THEN handleBackgroundMouseUp(s, m)
    ELSE handleMouseUpSD(s, m)

RECURSIVE DispatchMove(_, _, _)
DispatchMove(ls, p, m) ==
    IF ls = <<>> THEN m ELSE DispatchMove(Tail(ls), p, RunMove(Head(ls), p, m))

RECURSIVE DispatchUp(_, _)
DispatchUp(ls, m) ==
    IF ls = <<>> THEN m ELSE DispatchUp(Tail(ls), RunUp(Head(ls), m))

\* the state after a handler run; React has re-rendered before the next event
Apply(m) ==
    /\ canvasSize' = m.canvasSize
    /\ scroll' = IF mounted THEN ClampScroll(m.scroll, m.canvasSize) ELSE m.scroll
    /\ cursor' = m.cursor
    /\ elemStyle' = m.elemStyle
    /\ imageZIndices' = m.imageZIndices
    /\ nextZIndex' = m.nextZIndex
    /\ dragState' = m.dragState
    /\ customPositions' = m.customPositions
    /\ listeners' = m.listeners
    /\ committed' = m.committed
    /\ lastCommitted' = m.lastCommitted
    /\ lastSet' = m.lastSet
    /\ cmpBound' = m.cmpBound

Count(kind) ==
    /\ events < MaxEvents
    /\ events' = events + 1
    /\ lastEvent' = kind

(***************************************************************************)
(* Initial state: the component as constructed, scrolled to the origin.    *)
(***************************************************************************)
CollageInit(impls, variants) ==
    /\ impl \in impls
    /\ variant \in variants
    /\ mounted = TRUE
    /\ canvasSize = InitialCanvasSize
    /\ scroll = [left |-> 0, top |-> 0]
    /\ cursor = "grab"
    /\ elemStyle = InitialStyle
    /\ imageZIndices = [i \in Items |-> 0]
    /\ nextZIndex = InitialZIndex
    /\ dragState = InitialDragState
    /\ customPositions = [i \in Items |-> NullPos]
    /\ listeners = <<>>
    /\ clicked = {}
    /\ events = 0
    /\ lastEvent = "init"
    /\ pointer = <<0, 0>>
    /\ lastDown = NoDown
    /\ gesture = [item |-> 0, from |-> NullPos, moved |-> FALSE, phase |-> "none", click |-> 0]
    /\ committed = {}
    /\ lastCommitted = 0
    /\ lastSet = NoSet
    /\ cmpBound = InitialCanvasSize
    /\ growths = {}

(***************************************************************************)
(* Input events.                                                           *)
(***************************************************************************)
\* a mousedown at p that the browser dispatches to item i
MouseDownItem(i, p, button, shiftKey) ==
    /\ mounted
    /\ HitItem(p) = i
    /\ Count("down")
    /\ Apply(IF impl = "direct"
             THEN Bubble(p, button, shiftKey, i, itemStops(button, shiftKey, i),
                         handleMouseDown(i, p, button, shiftKey, Cur))
             ELSE handleMouseDownSD(i, p, Cur))
    /\ gesture' = IF listeners' # listeners
                  THEN [item |-> IF Len(listeners') > 0 /\ listeners'[Len(listeners')].kind = "pan"
                                 THEN 0 ELSE i,
                        from |-> [x |-> elemStyle[i].left, y |-> elemStyle[i].top],
                        moved |-> FALSE, phase |-> "down", click |-> 0]
                  ELSE gesture
    /\ pointer' = p
    /\ lastDown' = [button |-> button, shiftKey |-> shiftKey, target |-> i]
    /\ UNCHANGED <<impl, variant, mounted, clicked, growths>>
    /\ UNCHANGED pvars
    /\ UNCHANGED avars

\* a mousedown at p on the grid background
MouseDownBackground(p, button, shiftKey) ==
    /\ mounted
    /\ impl = "direct"
    /\ HitItem(p) = 0
    /\ Count("down")
    /\ Apply(Bubble(p, button, shiftKey, 0, FALSE, Cur))
    /\ gesture' = IF listeners' # listeners
                  THEN [item |-> 0, from |-> NullPos, moved |-> FALSE, phase |-> "down", click |-> 0]
                  ELSE gesture
    /\ pointer' = p
    /\ lastDown' = [button |-> button, shiftKey |-> shiftKey, target |-> 0]
    /\ UNCHANGED <<impl, variant, mounted, clicked, growths>>
    /\ UNCHANGED pvars
    /\ UNCHANGED avars

\* a mousemove at p, delivered to the document listeners
MouseMove(p) ==
    /\ listeners # <<>>
    /\ Count("move")
    /\ Apply(DispatchMove(listeners, p, Cur))
    /\ gesture' = IF gesture.phase = "down" THEN [gesture EXCEPT !.moved = TRUE] ELSE gesture
    /\ pointer' = p
    /\ lastDown' = lastDown
    /\ growths' = IF canvasSize'.width # canvasSize.width
                  THEN growths \cup {canvasSize'.width - canvasSize.width} ELSE growths
    /\ UNCHANGED <<impl, variant, mounted, clicked>>
    /\ UNCHANGED pvars
    /\ UNCHANGED avars

\* a mouseup, delivered to the document listeners
MouseUp ==
    /\ listeners # <<>>
    /\ Count("up")
    /\ Apply(DispatchUp(listeners, Cur))
    /\ gesture' = IF gesture.phase = "down" THEN [gesture EXCEPT !.phase = "up"] ELSE gesture
    /\ pointer' = pointer
    /\ lastDown' = lastDown
    /\ growths' = IF canvasSize'.width # canvasSize.width
                  THEN growths \cup {canvasSize'.width - canvasSize.width} ELSE growths
    /\ UNCHANGED <<impl, variant, mounted, clicked>>
    /\ UNCHANGED pvars
    /\ UNCHANGED avars

\* mutant: the variant is not tested
handleClick_AnyVariant(i) ==
    IF dragState.draggedItem = 0
    THEN clicked' = clicked \cup {i}
    ELSE clicked' = clicked

\* mutant: the variant test is inverted
handleClick_LargeOnly(i) ==
    IF dragState.draggedItem = 0 /\ variant = "large"
    THEN clicked' = clicked \cup {i}
    ELSE clicked' = clicked

\* handleClick(e, gif)
handleClick(i) ==
    IF dragState.draggedItem = 0 /\ variant # "large"
    THEN clicked' = clicked \cup {i}
    ELSE clicked' = clicked

\* a click the browser delivers to item i
Click(i) ==
    /\ mounted
    /\ Count("click")
    /\ handleClick(i)
    /\ gesture' = [gesture EXCEPT !.click = i]
    /\ pointer' = pointer
    /\ lastDown' = lastDown
    /\ UNCHANGED <<impl, variant, mounted, canvasSize, scroll, cursor, elemStyle,
                   imageZIndices, nextZIndex, dragState, customPositions, listeners,
                   committed, lastCommitted, lastSet, cmpBound, growths>>
    /\ UNCHANGED pvars
    /\ UNCHANGED avars

\* native scrolling of the overflow:auto container
Wheel(s) ==
    /\ mounted
    /\ variant = "large"
    /\ scroll # ClampScroll(s, canvasSize)
    /\ Count("wheel")
    /\ scroll' = ClampScroll(s, canvasSize)
    /\ pointer' = pointer
    /\ lastDown' = lastDown
    /\ UNCHANGED <<impl, variant, mounted, canvasSize, cursor, elemStyle, imageZIndices,
                   nextZIndex, dragState, customPositions, listeners, clicked, gesture,
                   committed, lastCommitted, lastSet, cmpBound, growths>>
    /\ UNCHANGED pvars
    /\ UNCHANGED avars

\* a layout key (A, D, arrows, R) replaces the mounted CollageView
KeyDownLayout ==
    /\ mounted
    /\ Count("key")
    /\ mounted' = FALSE
    /\ listeners' = IF impl = "state" THEN <<>> ELSE listeners
    /\ pointer' = pointer
    /\ lastDown' = lastDown
    /\ UNCHANGED <<impl, variant, canvasSize, scroll, cursor, elemStyle, imageZIndices,
                   nextZIndex, dragState, customPositions, clicked, gesture,
                   committed, lastCommitted, lastSet, cmpBound, growths>>
    /\ UNCHANGED pvars
    /\ UNCHANGED avars

\* the parent passes a new gifs array with the ids it had: the effect on [gifs]
\* runs setOrderedGifs(gifs); the keyed item elements stay mounted
GifsChanged ==
    /\ mounted
    /\ Count("gifs")
    /\ pointer' = pointer
    /\ lastDown' = lastDown
    /\ UNCHANGED <<impl, variant, mounted, canvasSize, scroll, cursor, elemStyle,
                   imageZIndices, nextZIndex, dragState, customPositions, listeners, clicked,
                   gesture, committed, lastCommitted, lastSet, cmpBound, growths>>
    /\ UNCHANGED pvars
    /\ UNCHANGED avars

CollageNext ==
    \/ \E i \in Items, p \in Pointers, b \in {0, 2}, sh \in BOOLEAN : MouseDownItem(i, p, b, sh)
    \/ \E p \in Pointers, b \in {0, 2}, sh \in BOOLEAN : MouseDownBackground(p, b, sh)
    \/ \E p \in Pointers : MouseMove(p)
    \/ MouseUp
    \/ \E i \in Items : Click(i)
    \/ \E s \in ScrollStops : Wheel(s)
    \/ KeyDownLayout
    \/ GifsChanged



(***************************************************************************)
(* IrregularCollage: generatePositions (src/unnamed/part_007).             *)
(*                                                                         *)
(* Lengths are whole pixels: a quotient is rounded down and Math.sqrt is   *)
(* the integer square root.  A Math.random() draw is a choice from a small *)
(* set of percentages.  The z-index draw of a position is left out.        *)
(***************************************************************************)
MaxItems == 2

\* window.innerWidth values a pass is run under
InnerWidths == {30, 60, 400}

\* Math.random() draws, in percent: one size category per bucket, two target areas
CategoryDraws == {10, 25, 50, 75, 90}
AreaDraws == {0, 99}

\* draws of the random-probe pass and of the fallback, in percent
ProbeDraws == {0, 50, 99}
FallbackDraws == {0, 99}

\* window.innerHeight values the layout is shown under; generatePositions never reads it
InnerHeights == {600, 800}

\* natural sizes of the catalog's images, by item id
Shapes == << <<800, 400>>, <<300, 600>>, <<500, 400>> >>
NaturalSize(id) == Shapes[((id - 1) % Len(Shapes)) + 1]

Pending == [naturalWidth |-> 0, naturalHeight |-> 0]
fallbackDimension == 400
gridSize == 15
gridOrigin == 5
minHeightFloor == 800
heightSlack == 400
probeAttempts == 20
minDisplay == 100
containerMargin == 50
widthFactor == 3
initialContainer == 3000
NegInfinity == -1000000000

\* Math.max(...xs): -Infinity for no argument
MathMax(xs) == IF xs = {} THEN NegInfinity ELSE CHOOSE x \in xs : \A y \in xs : y <= x
\* a + b where a may be -Infinity
Plus(a, b) == IF a = NegInfinity THEN NegInfinity ELSE a + b

\* Math.sqrt, rounded down
Sqrt(n) == CHOOSE k \in 0..1000 : k * k <= n /\ n < (k + 1) * (k + 1)

\* shuffleArray: Fisher-Yates, js[i] the draw floor(random * (i + 1)) of step i (0-based)
RECURSIVE shuffleArray(_, _, _)
shuffleArray(array, i, js) ==
    IF i < 1 THEN array
    ELSE LET j == js[i]
             swapped == [array EXCEPT ![i + 1] = array[j + 1], ![j + 1] = array[i + 1]]
         IN  shuffleArray(swapped, i - 1, js)

ShuffleDraws(n) == {js \in [1..(n - 1) -> 0..(n - 1)] : \A i \in 1..(n - 1) : js[i] <= i}

\* the size category: target area and maximum dimension, from the two draws
TargetArea(sizeCategory, r) ==
    IF sizeCategory < 15 THEN 300000 + (r * 200000) \div 100
    ELSE IF sizeCategory < 35 THEN 200000 + (r * 150000) \div 100
    ELSE IF sizeCategory < 65 THEN 150000 + (r * 100000) \div 100
    ELSE IF sizeCategory < 85 THEN 80000 + (r * 70000) \div 100
    ELSE 40000 + (r * 60000) \div 100

MaxDimension(sizeCategory, cw) ==
    IF sizeCategory < 15 THEN (cw * 40) \div 100
    ELSE IF sizeCategory < 35 THEN (cw * 30) \div 100
    ELSE IF sizeCategory < 65 THEN (cw * 25) \div 100
    ELSE IF sizeCategory < 85 THEN (cw * 20) \div 100
    ELSE (cw * 12) \div 100

\* mutant: the display size is not raised to the floor
SizeOf_NoFloor(id, dim, baseSize, maxDimension) ==
    LET nw == dim.naturalWidth
        nh == dim.naturalHeight
        wh == IF 2 * nw > 3 * nh
              THEN LET w == Min((baseSize * 14) \div 10, maxDimension)
                   IN  <<w, (w * nh) \div nw>>
              ELSE IF 4 * nw > 3 * nh
              THEN IF nw > nh
                   THEN LET w == Min(baseSize, maxDimension)
                        IN  <<w, (w * nh) \div nw>>
                   ELSE LET h == Min(baseSize, (maxDimension * 8) \div 10)
                        IN  <<(h * nw) \div nh, h>>
              ELSE LET h == Min((baseSize * 13) \div 10, (maxDimension * 12) \div 10)
                   IN  <<(h * nw) \div nh, h>>
    IN  [id |-> id, naturalWidth |-> nw, naturalHeight |-> nh,
         displayWidth |-> wh[1], displayHeight |-> wh[2],
         area |-> wh[1] * wh[2]]

\* the callback of mediaWithDimensions.map, from baseSize on: display size and area of one item
SizeOf(id, dim, baseSize, maxDimension) ==
    LET nw == dim.naturalWidth
        nh == dim.naturalHeight
        wh == IF 2 * nw > 3 * nh                       \* aspectRatio > 1.5
              THEN LET w == Min((baseSize * 14) \div 10, maxDimension)
                   IN  <<w, (w * nh) \div nw>>
              ELSE IF 4 * nw > 3 * nh                  \* aspectRatio > 0.75
              THEN IF nw > nh                          \* aspectRatio > 1
                   THEN LET w == Min(baseSize, maxDimension)
                        IN  <<w, (w * nh) \div nw>>
                   ELSE LET h == Min(baseSize, (maxDimension * 8) \div 10)
                        IN  <<(h * nw) \div nh, h>>
              ELSE LET h == Min((baseSize * 13) \div 10, (maxDimension * 12) \div 10)
                   IN  <<(h * nw) \div nh, h>>
        displayWidth == Max(wh[1], minDisplay)
        displayHeight == Max(wh[2], minDisplay)
    IN  [id |-> id, naturalWidth |-> nw, naturalHeight |-> nh,
         displayWidth |-> displayWidth, displayHeight |-> displayHeight,
         area |-> displayWidth * displayHeight]

\* itemsWithSizes.sort((a, b) => b.area - a.area): stable, largest area first
RECURSIVE InsertByArea(_, _)
InsertByArea(sorted, item) ==
    IF sorted = <<>> THEN <<item>>
    ELSE IF Head(sorted).area >= item.area
         THEN <<Head(sorted)>> \o InsertByArea(Tail(sorted), item)
         ELSE <<item>> \o sorted

RECURSIVE SortByArea(_)
SortByArea(items) ==
    IF items = <<>> THEN <<>>
    ELSE InsertByArea(SortByArea(SubSeq(items, 1, Len(items) - 1)), items[Len(items)])

Range(seq) == {seq[k] : k \in 1..Len(seq)}

\* the overlap of the box (x, y, width, height) with one occupied area
OverlapArea(x, y, width, height, area) ==
    LET overlapX == Max(0, Min(x + width, area.x + area.width) - Max(x, area.x))
        overlapY == Max(0, Min(y + height, area.y + area.height) - Max(y, area.y))
    IN  overlapX * overlapY

\* mutant: the allowance is taken from the larger of the two areas
isOverlapping_OfLarger(x, y, width, height, occupiedAreas) ==
    \E area \in Range(occupiedAreas) :
        LET thisArea == width * height
            otherArea == area.width * area.height
        IN  OverlapArea(x, y, width, height, area) * 100 > Max(thisArea, otherArea) * 15

\* isOverlapping(x, y, width, height) against occupiedAreas
isOverlapping(x, y, width, height, occupiedAreas) ==
    \E area \in Range(occupiedAreas) :
        LET thisArea == width * height
            otherArea == area.width * area.height
        IN  OverlapArea(x, y, width, height, area) * 100 > Min(thisArea, otherArea) * 15

\* mutant: the top edges are taken for the bottom edges
Bottoms_Tops(occupiedAreas) == {occupiedAreas[k].y : k \in 1..Len(occupiedAreas)}

Bottoms(occupiedAreas) == {occupiedAreas[k].y + occupiedAreas[k].height : k \in 1..Len(occupiedAreas)}

\* mutant: the loop stops 600 short of its limit
GridSteps_StopsEarly(from, limit) ==
    {from + gridSize * k : k \in 0..((limit - 600 - from - 1) \div gridSize)}

\* the values a loop `for (v = from; v < limit; v += gridSize)` takes
GridSteps(from, limit) == {from + gridSize * k : k \in 0..((limit - from - 1) \div gridSize)}

\* mutant: the row is scanned from its right end
ScanRow_FromRight(x, y, maxWidth, width, height, occupiedAreas) ==
    LET Free(c) == ~isOverlapping(c, y, width, height, occupiedAreas)
    IN  IF \E c \in GridSteps(x, maxWidth) : Free(c)
        THEN CHOOSE c \in GridSteps(x, maxWidth) :
                 Free(c) /\ \A d \in GridSteps(x, maxWidth) : Free(d) => d <= c
        ELSE -1

\* the inner loop of the grid scan: the first free x of row y at or after x, -1 for none
ScanRow(x, y, maxWidth, width, height, occupiedAreas) ==
    LET Free(c) == ~isOverlapping(c, y, width, height, occupiedAreas)
    IN  IF \E c \in GridSteps(x, maxWidth) : Free(c)
        THEN CHOOSE c \in GridSteps(x, maxWidth) :
                 Free(c) /\ \A d \in GridSteps(x, c) : ~Free(d)
        ELSE -1

\* the outer loop of the grid scan: the first free point in raster order, <<-1, -1>> for none
ScanGrid(y, currentMaxHeight, maxWidth, width, height, occupiedAreas) ==
    LET rows == GridSteps(y, currentMaxHeight)
        Found(r) == ScanRow(gridOrigin, r, maxWidth, width, height, occupiedAreas) # -1
    IN  IF \E r \in rows : Found(r)
        THEN CHOOSE point \in
                 {<<ScanRow(gridOrigin, first, maxWidth, width, height, occupiedAreas), first>> :
                      first \in {CHOOSE r \in rows :
                                     Found(r) /\ \A q \in GridSteps(y, r) : ~Found(q)}} : TRUE
        ELSE <<-1, -1>>

\* a point of the random-probe pass, from two draws
ProbePoint(rx, ry, maxWidth, currentMaxHeight) ==
    <<(rx * (maxWidth - 10)) \div 100 + gridOrigin, (ry * currentMaxHeight) \div 100 + gridOrigin>>

\* findBestPosition(width, height): the positions it can return, each with the path taken.
\* The probe pass returns its first free draw; if some draw is not free, all 20 may miss.
findBestPosition(width, height, occupiedAreas) ==
    LET maxWidth == innerWidth * widthFactor - width - 10
        currentMaxHeight == Max(minHeightFloor, MathMax(Bottoms(occupiedAreas))) + heightSlack
        probes == {ProbePoint(rx, ry, maxWidth, currentMaxHeight) :
                       rx \in ProbeDraws, ry \in ProbeDraws}
        free == {q \in probes : ~isOverlapping(q[1], q[2], width, height, occupiedAreas)}
        maxY == Max(0, MathMax(Bottoms(occupiedAreas)))
        Later == (IF probeAttempts > 0
                  THEN {[x |-> q[1], y |-> q[2], path |-> "random"] : q \in free}
                  ELSE {})
                 \cup (IF probeAttempts = 0 \/ free # probes
                       THEN {[x |-> gridOrigin + r, y |-> maxY + 10, path |-> "fallback"] :
                                 r \in FallbackDraws}
                       ELSE {})
    IN  UNION {IF grid # <<-1, -1>>
               THEN {[x |-> grid[1], y |-> grid[2], path |-> "grid"]}
               ELSE Later :
                   grid \in {ScanGrid(gridOrigin, currentMaxHeight, maxWidth, width, height,
                                      occupiedAreas)}}

occupiedAreasOf(ps) ==
    [k \in 1..Len(ps) |-> [x |-> ps[k].x, y |-> ps[k].y,
                           width |-> ps[k].width, height |-> ps[k].height]]

(***************************************************************************)
(* One pass of generatePositions.  The block after `await Promise.all` is  *)
(* synchronous; it is taken item by item (sizing, placing, then the two    *)
(* setContainer calls), and nothing else is enabled while it runs.         *)
(***************************************************************************)
PlannerInit(lists, widths) ==
    /\ media \in lists
    /\ innerWidth \in widths
    /\ phase = "idle"
    /\ shuffled = <<>>
    /\ dimensions = [id \in {} |-> Pending]
    /\ itemsWithSizes = <<>>
    /\ positions = <<>>
    /\ placedBy = <<>>
    /\ containerWidth = initialContainer
    /\ containerHeight = initialContainer
    /\ positionedMedia = <<>>
    /\ probeErrors = {}
    /\ outOfOrder = FALSE

MediaLists == {[k \in 1..n |-> k] : n \in 0..MaxItems}

\* the effect calls loadPositions: generatePositions shuffles and starts every probe
StartPass(js) ==
    /\ phase = "idle"
    /\ shuffled' = shuffleArray(media, Len(media) - 1, js)
    /\ dimensions' = [id \in Range(media) |-> Pending]
    /\ phase' = "probing"
    /\ probeErrors' = {}
    /\ outOfOrder' = FALSE
    /\ UNCHANGED <<media, innerWidth, itemsWithSizes, positions, placedBy,
                   containerWidth, containerHeight, positionedMedia>>
    /\ UNCHANGED cvars
    /\ UNCHANGED avars

\* the probe of item id settles while the probe of an item before it in the array is pending
Overtakes(id) ==
    \E k \in 1..Len(shuffled) :
        shuffled[k] = id /\ \E l \in 1..(k - 1) : dimensions[shuffled[l]] = Pending

\* mutant: a result is stored in arrival order, in the slot of the first item still pending
ProbeLoad_ByArrival(id) ==
    /\ phase = "probing"
    /\ id \in DOMAIN dimensions /\ dimensions[id] = Pending
    /\ \E k \in 1..Len(shuffled) :
          /\ dimensions[shuffled[k]] = Pending
          /\ \A l \in 1..(k - 1) : dimensions[shuffled[l]] # Pending
          /\ dimensions' = [dimensions EXCEPT ![shuffled[k]] =
                               [naturalWidth |-> NaturalSize(id)[1],
                                naturalHeight |-> NaturalSize(id)[2]]]
    /\ outOfOrder' = (outOfOrder \/ Overtakes(id))
    /\ UNCHANGED <<media, innerWidth, probeErrors, phase, shuffled, itemsWithSizes, positions, placedBy,
                   containerWidth, containerHeight, positionedMedia>>
    /\ UNCHANGED cvars
    /\ UNCHANGED avars

\* img.onload of the probe of item id
ProbeLoad(id) ==
    /\ phase = "probing"
    /\ id \in DOMAIN dimensions /\ dimensions[id] = Pending
    /\ dimensions' = [dimensions EXCEPT ![id] =
                         [naturalWidth |-> NaturalSize(id)[1],
                          naturalHeight |-> NaturalSize(id)[2]]]
    /\ outOfOrder' = (outOfOrder \/ Overtakes(id))
    /\ UNCHANGED <<media, innerWidth, probeErrors, phase, shuffled, itemsWithSizes, positions, placedBy,
                   containerWidth, containerHeight, positionedMedia>>
    /\ UNCHANGED cvars
    /\ UNCHANGED avars

\* mutant: an item whose probe fails is left out of the pass
ProbeError_Drops(id) ==
    /\ phase = "probing"
    /\ id \in DOMAIN dimensions /\ dimensions[id] = Pending
    /\ shuffled' = SelectSeq(shuffled, LAMBDA x : x # id)
    /\ dimensions' = [j \in (DOMAIN dimensions) \ {id} |-> dimensions[j]]
    /\ probeErrors' = probeErrors \cup {id}
    /\ outOfOrder' = (outOfOrder \/ Overtakes(id))
    /\ UNCHANGED <<media, innerWidth, phase, itemsWithSizes, positions, placedBy,
                   containerWidth, containerHeight, positionedMedia>>
    /\ UNCHANGED cvars
    /\ UNCHANGED avars

\* mutant: a failing probe rejects, and Promise.all with it
ProbeError_Rejects(id) ==
    /\ phase = "probing"
    /\ id \in DOMAIN dimensions /\ dimensions[id] = Pending
    /\ phase' = "rejected"
    /\ probeErrors' = probeErrors \cup {id}
    /\ outOfOrder' = (outOfOrder \/ Overtakes(id))
    /\ UNCHANGED <<media, innerWidth, shuffled, dimensions, itemsWithSizes, positions,
                   placedBy, containerWidth, containerHeight, positionedMedia>>
    /\ UNCHANGED cvars
    /\ UNCHANGED avars

\* img.onerror of the probe of item id
ProbeError(id) ==
    /\ phase = "probing"
    /\ id \in DOMAIN dimensions /\ dimensions[id] = Pending
    /\ dimensions' = [dimensions EXCEPT ![id] =
                         [naturalWidth |-> fallbackDimension,
                          naturalHeight |-> fallbackDimension]]
    /\ probeErrors' = probeErrors \cup {id}
    /\ outOfOrder' = (outOfOrder \/ Overtakes(id))
    /\ UNCHANGED <<media, innerWidth, phase, shuffled, itemsWithSizes, positions, placedBy,
                   containerWidth, containerHeight, positionedMedia>>
    /\ UNCHANGED cvars
    /\ UNCHANGED avars

\* Promise.all resolves: the synchronous block starts
AllProbed ==
    /\ phase = "probing"
    /\ \A id \in DOMAIN dimensions : dimensions[id] # Pending
    /\ phase' = "sizing"
    /\ UNCHANGED <<media, innerWidth, probeErrors, outOfOrder, shuffled, dimensions, itemsWithSizes, positions,
                   placedBy, containerWidth, containerHeight, positionedMedia>>
    /\ UNCHANGED cvars
    /\ UNCHANGED avars

\* the map callback for the next item of mediaWithDimensions
SizeItem(sizeCategory, r) ==
    /\ phase = "sizing"
    /\ Len(itemsWithSizes) < Len(shuffled)
    /\ \E id \in {shuffled[Len(itemsWithSizes) + 1]},
          baseSize \in {Sqrt(TargetArea(sizeCategory, r))},
          maxDimension \in {MaxDimension(sizeCategory, innerWidth * widthFactor)} :
           itemsWithSizes' = Append(itemsWithSizes,
                                    SizeOf(id, dimensions[id], baseSize, maxDimension))
    /\ UNCHANGED <<media, innerWidth, probeErrors, outOfOrder, phase, shuffled, dimensions, positions, placedBy,
                   containerWidth, containerHeight, positionedMedia>>
    /\ UNCHANGED cvars
    /\ UNCHANGED avars

\* mutant: the items keep the order of the shuffle
SortItems_KeepsOrder ==
    /\ phase = "sizing"
    /\ Len(itemsWithSizes) = Len(shuffled)
    /\ phase' = "placing"
    /\ UNCHANGED <<media, innerWidth, probeErrors, outOfOrder, shuffled, dimensions, itemsWithSizes,
                   positions, placedBy, containerWidth, containerHeight, positionedMedia>>
    /\ UNCHANGED cvars
    /\ UNCHANGED avars

\* the sort, in place, once every item has its size
SortItems ==
    /\ phase = "sizing"
    /\ Len(itemsWithSizes) = Len(shuffled)
    /\ itemsWithSizes' = SortByArea(itemsWithSizes)
    /\ phase' = "placing"
    /\ UNCHANGED <<media, innerWidth, probeErrors, outOfOrder, shuffled, dimensions, positions, placedBy,
                   containerWidth, containerHeight, positionedMedia>>
    /\ UNCHANGED cvars
    /\ UNCHANGED avars

\* the forEach callback for the next item of sortedItems
PlaceItem ==
    /\ phase = "placing"
    /\ Len(positions) < Len(itemsWithSizes)
    /\ \E item \in {itemsWithSizes[Len(positions) + 1]},
          occupiedAreas \in {occupiedAreasOf(positions)} :
           \E position \in findBestPosition(item.displayWidth, item.displayHeight,
                                            occupiedAreas) :
             /\ positions' = Append(positions,
                    [id |-> item.id, naturalWidth |-> item.naturalWidth,
                     naturalHeight |-> item.naturalHeight,
                     x |-> position.x, y |-> position.y,
                     width |-> item.displayWidth, height |-> item.displayHeight])
             /\ placedBy' = Append(placedBy, position.path)
    /\ UNCHANGED <<media, innerWidth, probeErrors, outOfOrder, phase, shuffled, dimensions, itemsWithSizes,
                   containerWidth, containerHeight, positionedMedia>>
    /\ UNCHANGED cvars
    /\ UNCHANGED avars

\* mutant: the size is taken from the item placed last
PublishSize_LastItem ==
    /\ phase = "placing"
    /\ Len(positions) = Len(itemsWithSizes)
    /\ LET last == IF positions = <<>> THEN {} ELSE {positions[Len(positions)]}
           maxY == MathMax({p.y + p.height : p \in last})
           maxX == MathMax({p.x + p.width : p \in last})
       IN  /\ containerHeight' = Plus(maxY, containerMargin)
           /\ containerWidth' = Max(Plus(maxX, containerMargin), innerWidth)
    /\ phase' = "returned"
    /\ UNCHANGED <<media, innerWidth, probeErrors, outOfOrder, shuffled, dimensions, itemsWithSizes, positions,
                   placedBy, positionedMedia>>
    /\ UNCHANGED cvars
    /\ UNCHANGED avars

\* setContainerHeight / setContainerWidth, and the return of positions
PublishSize ==
    /\ phase = "placing"
    /\ Len(positions) = Len(itemsWithSizes)
    /\ LET maxY == MathMax({positions[k].y + positions[k].height : k \in 1..Len(positions)})
           maxX == MathMax({positions[k].x + positions[k].width : k \in 1..Len(positions)})
       IN  /\ containerHeight' = Plus(maxY, containerMargin)
           /\ containerWidth' = Max(Plus(maxX, containerMargin), innerWidth)
    /\ phase' = "returned"
    /\ UNCHANGED <<media, innerWidth, probeErrors, outOfOrder, shuffled, dimensions, itemsWithSizes, positions,
                   placedBy, positionedMedia>>
    /\ UNCHANGED cvars
    /\ UNCHANGED avars

\* loadPositions resumes after its await: setPositionedMedia(positions)
loadPositions ==
    /\ phase = "returned"
    /\ positionedMedia' = positions
    /\ phase' = "done"
    /\ UNCHANGED <<media, innerWidth, probeErrors, outOfOrder, shuffled, dimensions, itemsWithSizes, positions,
                   placedBy, containerWidth, containerHeight>>
    /\ UNCHANGED cvars
    /\ UNCHANGED avars

\* The parent renders the collage with an empty media list while the running pass awaits
\* its probes: generatePositions is rebuilt and the effect starts a second pass.  Over no
\* item its Promise.all is already resolved, so the second pass runs to its end (both
\* setContainer calls and setPositionedMedia) before any probe event of the first pass.
MediaChanged ==
    /\ phase = "probing"
    /\ media # <<>>
    /\ \E id \in DOMAIN dimensions : dimensions[id] = Pending
    /\ media' = <<>>
    /\ containerHeight' = Plus(MathMax({}), containerMargin)
    /\ containerWidth' = Max(Plus(MathMax({}), containerMargin), innerWidth)
    /\ positionedMedia' = <<>>
    /\ UNCHANGED <<innerWidth, probeErrors, outOfOrder, phase, shuffled, dimensions,
                   itemsWithSizes, positions, placedBy>>
    /\ UNCHANGED cvars
    /\ UNCHANGED avars

PlannerNext ==
    \/ \E js \in ShuffleDraws(Len(media)) : StartPass(js)
    \/ \E id \in DOMAIN dimensions : ProbeLoad(id)
    \/ \E id \in DOMAIN dimensions : ProbeError(id)
    \/ AllProbed
    \/ \E sizeCategory \in CategoryDraws, r \in AreaDraws : SizeItem(sizeCategory, r)
    \/ SortItems
    \/ PlaceItem
    \/ PublishSize
    \/ loadPositions

(***************************************************************************)
(* App: keyboard navigation, music-player visibility, image refresh and    *)
(* the lightbox (src/src/App.tsx, Lightbox.tsx).  The keydown effects list *)
(* every state they read in their dependencies, so a handler sees the      *)
(* state of the last render.                                               *)
(***************************************************************************)
MaxRefresh == 2
TrailLen == 6

\* e.key of the keydown events delivered
Keys == {"a", "A", "ArrowLeft", "d", "D", "ArrowRight", "r", "R", "Shift", "Escape", "x"}

\* ids of the items a click can open in the lightbox
LightboxGifs == {1, 2}

ViewModes == {"list", "stack", "large-list", "irregular", "pics-only", "pinterest"}

\* mutant: going backward from the list view lands on pics-only
toggleLayout_BackTooFar(direction, prev) ==
    IF direction = "backward"
    THEN CASE prev = "list" -> "pics-only"
           [] prev = "stack" -> "list"
           [] prev = "large-list" -> "stack"
           [] prev = "irregular" -> "large-list"
           [] prev = "pics-only" -> "irregular"
           [] prev = "pinterest" -> "pics-only"
           [] OTHER -> "list"
    ELSE CASE prev = "list" -> "stack"
           [] prev = "stack" -> "large-list"
           [] prev = "large-list" -> "irregular"
           [] prev = "irregular" -> "pics-only"
           [] prev = "pics-only" -> "pinterest"
           [] prev = "pinterest" -> "list"
           [] OTHER -> "list"

\* the updater toggleLayout(direction) hands to setViewMode
toggleLayout(direction, prev) ==
    IF direction = "backward"
    THEN CASE prev = "list" -> "pinterest"
           [] prev = "stack" -> "list"
           [] prev = "large-list" -> "stack"
           [] prev = "irregular" -> "large-list"
           [] prev = "pics-only" -> "irregular"
           [] prev = "pinterest" -> "pics-only"
           [] OTHER -> "list"
    ELSE CASE prev = "list" -> "stack"
           [] prev = "stack" -> "large-list"
           [] prev = "large-list" -> "irregular"
           [] prev = "irregular" -> "pics-only"
           [] prev = "pics-only" -> "pinterest"
           [] prev = "pinterest" -> "list"
           [] OTHER -> "list"

\* mutant: Shift toggles the player whether or not the lightbox is open
ShiftToggles_Always(key, open) == key = "Shift" /\ open = open

\* the condition of the Shift handler
ShiftToggles(key, open) == key = "Shift" /\ ~open

\* the keys of the layout handler
IsBackwardKey(key) == key \in {"a", "A", "ArrowLeft"}
IsForwardKey(key) == key \in {"d", "D", "ArrowRight"}
IsRefreshKey(key) == key \in {"r", "R"}

\* mutant: the music player is keyed by the refresh key too
ElementKey_PlayerRefreshed(element, mode, refreshKey, open, gif) ==
    CASE element = "MusicPlayer" -> <<"MusicPlayer", refreshKey>>
      [] element = "main" -> <<mode, refreshKey>>
      [] element = "Lightbox" -> <<"Lightbox">>

\* type and key of the elements App renders: MusicPlayer and Lightbox have no
\* key and a fixed place, the main view is chosen by viewMode and keyed by
\* `${name}-${imageRefreshKey}`
ElementKey(element, mode, refreshKey, open, gif) ==
    CASE element = "MusicPlayer" -> <<"MusicPlayer">>
      [] element = "main" -> <<mode, refreshKey>>
      [] element = "Lightbox" -> <<"Lightbox">>

Elements == {"MusicPlayer", "main", "Lightbox"}

\* the elements React unmounts and mounts anew when the render changes
Remounts ==
    remounted' = {el \in Elements :
                     ElementKey(el, viewMode', imageRefreshKey', isLightboxOpen', lightboxGif')
                       # ElementKey(el, viewMode, imageRefreshKey, isLightboxOpen, lightboxGif)}

KeyKind(key) ==
    IF IsBackwardKey(key) THEN "backward"
    ELSE IF IsForwardKey(key) THEN "forward"
    ELSE IF IsRefreshKey(key) THEN "refresh"
    ELSE IF key = "Shift" THEN "shift"
    ELSE "other"

\* the trail after a keydown
Trailed(key) ==
    IF isLightboxOpen \/ KeyKind(key) = "other" THEN <<>>
    ELSE LET entry == [kind |-> KeyKind(key), viewMode |-> viewMode,
                       visible |-> isMusicPlayerVisible, refreshKey |-> imageRefreshKey]
             longer == Append(trail, entry)
         IN  IF Len(longer) > TrailLen THEN Tail(longer) ELSE longer

AppInit ==
    /\ viewMode = "pinterest"
    /\ isLightboxOpen = FALSE
    /\ lightboxGif = 0
    /\ isZoomed = FALSE
    /\ isMusicPlayerVisible = TRUE
    /\ imageRefreshKey = 0
    /\ remounted = {}
    /\ trail = <<>>

\* one keydown on the document: the Shift handler and the layout handler of
\* App and the handler of Lightbox all receive it
KeyDown(key) ==
    /\ IsRefreshKey(key) /\ ~isLightboxOpen => imageRefreshKey < MaxRefresh
    /\ isMusicPlayerVisible' = IF ShiftToggles(key, isLightboxOpen)
                               THEN ~isMusicPlayerVisible ELSE isMusicPlayerVisible
    /\ viewMode' = IF isLightboxOpen THEN viewMode
                   ELSE IF IsBackwardKey(key) THEN toggleLayout("backward", viewMode)
                   ELSE IF IsForwardKey(key) THEN toggleLayout("forward", viewMode)
                   ELSE viewMode
    /\ imageRefreshKey' = IF ~isLightboxOpen /\ ~IsBackwardKey(key) /\ ~IsForwardKey(key)
                             /\ IsRefreshKey(key)
                          THEN imageRefreshKey + 1 ELSE imageRefreshKey
    /\ IF isLightboxOpen /\ key = "Escape"
       THEN IF isZoomed
            THEN isZoomed' = FALSE /\ UNCHANGED <<isLightboxOpen, lightboxGif>>
            ELSE isLightboxOpen' = FALSE /\ lightboxGif' = 0 /\ isZoomed' = FALSE
       ELSE UNCHANGED <<isLightboxOpen, lightboxGif, isZoomed>>
    /\ trail' = Trailed(key)
    /\ UNCHANGED <<cvars, pvars>>
    /\ Remounts

\* a click on the layout button of the music player: onLayoutToggle
ClickLayoutToggle ==
    /\ isMusicPlayerVisible
    /\ viewMode' = toggleLayout("forward", viewMode)
    /\ trail' = <<>>
    /\ UNCHANGED <<isLightboxOpen, lightboxGif, isZoomed, isMusicPlayerVisible,
                   imageRefreshKey>>
    /\ UNCHANGED <<cvars, pvars>>
    /\ Remounts

\* the music player is dragged off the window: onDismiss
handleMusicPlayerDismiss ==
    /\ isMusicPlayerVisible
    /\ isMusicPlayerVisible' = FALSE
    /\ trail' = <<>>
    /\ UNCHANGED <<viewMode, isLightboxOpen, lightboxGif, isZoomed, imageRefreshKey>>
    /\ UNCHANGED <<cvars, pvars>>
    /\ Remounts

\* a click on an item of a view that opens the lightbox (the draggable canvas does not)
openLightbox(gif) ==
    /\ ~isLightboxOpen
    /\ viewMode # "stack"
    /\ lightboxGif' = gif
    /\ isLightboxOpen' = TRUE
    /\ isZoomed' = FALSE
    /\ trail' = <<>>
    /\ UNCHANGED <<viewMode, isMusicPlayerVisible, imageRefreshKey>>
    /\ UNCHANGED <<cvars, pvars>>
    /\ Remounts

\* a click on the lightbox overlay: leaves the zoom, or closeLightbox
ClickOverlay ==
    /\ isLightboxOpen
    /\ IF isZoomed
       THEN isZoomed' = FALSE /\ UNCHANGED <<isLightboxOpen, lightboxGif>>
       ELSE isLightboxOpen' = FALSE /\ lightboxGif' = 0 /\ isZoomed' = FALSE
    /\ trail' = <<>>
    /\ UNCHANGED <<viewMode, isMusicPlayerVisible, imageRefreshKey>>
    /\ UNCHANGED <<cvars, pvars>>
    /\ Remounts

\* a click on the lightbox image
ClickImage ==
    /\ isLightboxOpen
    /\ isZoomed' = ~isZoomed
    /\ trail' = <<>>
    /\ UNCHANGED <<viewMode, isLightboxOpen, lightboxGif, isMusicPlayerVisible,
                   imageRefreshKey>>
    /\ UNCHANGED <<cvars, pvars>>
    /\ Remounts

AppNext ==
    \/ \E key \in Keys : KeyDown(key)
    \/ ClickLayoutToggle
    \/ handleMusicPlayerDismiss
    \/ \E gif \in LightboxGifs : openLightbox(gif)
    \/ ClickOverlay
    \/ ClickImage

(***************************************************************************)
(* Specifications.                                                         *)
(***************************************************************************)
\* the draggable CollageView under pointer, wheel and key events
Init == CollageInit({"direct", "state"}, {"large", "stack"}) /\ PlannerInit({<<>>}, {400})
        /\ AppInit
Next == CollageNext
Spec == Init /\ [][Next]_vars

\* the planner of IrregularCollage
InitPlanner == CollageInit({"direct"}, {"large"}) /\ PlannerInit(MediaLists, InnerWidths)
               /\ AppInit
SpecPlanner == InitPlanner /\ [][PlannerNext]_vars

\* the planner with its scheduling: every probe signals onload or onerror, a
\* resolved await resumes, and the synchronous block runs to its end
\* The direct-DOM collage after dragZIndex - InitialZIndex + 1 commits of item 2, each a
\* mousedown and mouseup at client (950, 760) with no mousemove, under scroll (9000, 9200):
\* the counter has passed dragZIndex, positions and canvas are the initial ones.
WornInit ==
    /\ impl = "direct"
    /\ variant = "large"
    /\ mounted = TRUE
    /\ canvasSize = InitialCanvasSize
    /\ scroll = [left |-> 9000, top |-> 9200]
    /\ cursor = "grab"
    /\ elemStyle = [InitialStyle EXCEPT ![2].zIndex = dragZIndex]
    /\ imageZIndices = [i \in Items |-> IF i = 2 THEN dragZIndex ELSE 0]
    /\ nextZIndex = dragZIndex + 1
    /\ dragState = InitialDragState
    /\ customPositions = [i \in Items |-> NullPos]
    /\ listeners = <<>>
    /\ clicked = {}
    /\ events = 0
    /\ lastEvent = "up"
    /\ pointer = <<950, 760>>
    /\ lastDown = [button |-> 0, shiftKey |-> FALSE, target |-> 2]
    /\ gesture = [item |-> 2, from |-> [x |-> InitialStyle[2].left, y |-> InitialStyle[2].top],
                  moved |-> FALSE, phase |-> "up", click |-> 0]
    /\ committed = {2}
    /\ lastCommitted = 2
    /\ lastSet = NoSet
    /\ cmpBound = InitialCanvasSize
    /\ growths = {}

InitWorn == WornInit /\ PlannerInit({<<>>}, {400}) /\ AppInit
SpecWorn == InitWorn /\ [][Next]_vars

\* one pass, and a second pass started while the first awaits its probes
OverlapNext == PlannerNext \/ MediaChanged
SpecPlannerOverlap == InitPlanner /\ [][OverlapNext]_vars

SpecPlannerFair == InitPlanner /\ [][PlannerNext]_vars /\ WF_vars(PlannerNext)

\* App under key presses and clicks
InitApp == CollageInit({"direct"}, {"large"}) /\ PlannerInit({<<>>}, {400}) /\ AppInit
SpecApp == InitApp /\ [][AppNext]_vars

(***************************************************************************)
(* Properties.                                                             *)
(***************************************************************************)
IsItemDrag(l) == l.kind = "drag" \/ l.kind = "effect"
IsPan(l) == l.kind = "pan"

\* the open item-drag sessions and the open pan sessions
DragSessions == SelectSeq(listeners, IsItemDrag)
PanSessions == SelectSeq(listeners, IsPan)

\* the step delivers one more input event, of the given kind
Delivers(kind) == events' = events + 1 /\ lastEvent' = kind

\* C1: the canvas width and the canvas height never decrease from a state to
\* its successor, whatever pointer events are delivered.
C1_BoundsNonDecreasing ==
    [][/\ canvasSize'.width >= canvasSize.width
       /\ canvasSize'.height >= canvasSize.height]_vars

\* C2: with no gesture open, the item whose drag was committed last has a
\* z-index strictly greater than that of every other committed item
\* (the z-counter implementation, part_003).
C2_LastCommitOnTop ==
    (impl = "direct" /\ listeners = <<>> /\ lastCommitted # 0) =>
        \A j \in committed \ {lastCommitted} :
            elemStyle[lastCommitted].zIndex > elemStyle[j].zIndex

\* C3: a pointer-down that arrives while an item-drag session is open creates
\* no drag session: the open sessions are the same before and after it.
C3_SecondDownIsNoOp ==
    [][(DragSessions # <<>> /\ Delivers("down")) => DragSessions' = DragSessions]_vars

\* C4: an item-drag session and a background-pan session are never open at
\* the same time.
C4_DragPanExclusive == ~(DragSessions # <<>> /\ PanSessions # <<>>)

\* C6: in the large variant, a click delivered after a pointer-down on an
\* item, at least one pointer-move and a pointer-up does not invoke onGifClick.
C6_NoSelectAfterDrag ==
    [][(/\ variant = "large"
        /\ gesture.item # 0 /\ gesture.moved /\ gesture.phase = "up"
        /\ Delivers("click")) => clicked' = clicked]_vars

C6_Witness ==
    /\ variant = "large" /\ lastEvent = "click"
    /\ gesture.item # 0 /\ gesture.moved /\ gesture.phase = "up"
    /\ gesture.click = gesture.item

\* C7 as stated: in the large variant, the click that follows a pointer-down
\* on an item and a pointer-up with no move in between invokes onGifClick for
\* that item.
C7_PlainClickSelects ==
    [][(/\ variant = "large"
        /\ gesture.item # 0 /\ ~gesture.moved /\ gesture.phase = "up"
        /\ lastEvent = "up" /\ Delivers("click")
        /\ gesture'.click = gesture.item) => gesture.item \in clicked']_vars

\* C7 as amended: in the large variant the click that follows a move-free
\* pointer-down/pointer-up on an item invokes nothing; in the stack variant a
\* click on an item invokes onGifClick for that item.
C7_PlainClickSelectsOnlyInStack ==
    [][Delivers("click") =>
         IF variant = "large"
         THEN (gesture.item # 0 /\ ~gesture.moved /\ gesture.phase = "up")
                 => clicked' = clicked
         ELSE clicked' = clicked \cup {gesture'.click}]_vars

C7_Witness ==
    /\ variant = "large" /\ lastEvent = "click"
    /\ gesture.item # 0 /\ ~gesture.moved /\ gesture.phase = "up"
    /\ gesture.click = gesture.item
    /\ clicked = {}

\* C8: no document listener outlives its session: none is left after the
\* pointer-up that ends the gesture, and none after the component is removed.
C8_NoListenerOutlivesSession ==
    /\ lastEvent = "up" => listeners = <<>>
    /\ ~mounted => listeners = <<>>

C10_MoveSeesPreviousGrowth ==
    [][(/\ mounted /\ Len(listeners) = 1 /\ IsItemDrag(listeners[1])
        /\ lastEvent = "move" /\ Delivers("move")) => cmpBound' = canvasSize]_vars

\* the overlap of two placed items, and the area of a placed item
PairOverlap(a, b) ==
    OverlapArea(positions[a].x, positions[a].y, positions[a].width, positions[a].height,
                [x |-> positions[b].x, y |-> positions[b].y,
                 width |-> positions[b].width, height |-> positions[b].height])
PlacedArea(a) == positions[a].width * positions[a].height

\* C5: every two placed items overlap in at most 15% of the area of the
\* smaller of the two, whichever path of findBestPosition placed them.
C5_BoundedOverlap ==
    \A a, b \in 1..Len(positions) :
        a < b => PairOverlap(a, b) * 100 <= Min(PlacedArea(a), PlacedArea(b)) * 15

C5_Witness ==
    /\ phase = "done"
    /\ \E a, b \in 1..Len(positions) : a < b /\ PairOverlap(a, b) > 0

\* C11: in the state-driven CollageView, the pointer-up of an item drag that
\* had at least one pointer-move stores for the dragged item the candidate of
\* the last pointer-move (pointer in canvas space minus the grab offset), which
\* is the position the item was painted at by that move.
C11_CommitsLastCandidate ==
    [][(/\ impl = "state" /\ variant = "large" /\ mounted
        /\ Len(listeners) = 1 /\ dragState.draggedItem # 0
        /\ lastEvent = "move" /\ Delivers("up"))
       => customPositions'[dragState.draggedItem] =
              [x |-> dragState.currentPos.x - dragState.offset.x,
               y |-> dragState.currentPos.y - dragState.offset.y]]_vars

\* C12: the z-counter starts at 100 and never decreases, and a pointer-up that
\* commits n drags leaves it n greater, the k-th commit assigning the value
\* the counter holds just before it (part_003).
C12_CommitTakesCounter ==
    /\ [](nextZIndex >= InitialZIndex)
    /\ [][nextZIndex' >= nextZIndex]_vars
    /\ [][(impl = "direct" /\ mounted /\ DragSessions # <<>> /\ Delivers("up"))
          => /\ nextZIndex' = nextZIndex + Len(DragSessions)
             /\ imageZIndices'[DragSessions[Len(DragSessions)].index]
                    = nextZIndex + Len(DragSessions) - 1]_vars

\* C13: a pass that has returned holds exactly one positioned record per item
\* of the input list, and the record of an item whose probe failed carries the
\* fallback natural size 400 x 400 and the square box sized from it.
C13_OneRecordPerItem ==
    phase \in {"returned", "done"} =>
        /\ Len(positions) = Len(media)
        /\ \A id \in Range(media) :
               Cardinality({k \in 1..Len(positions) : positions[k].id = id}) = 1
        /\ \A k \in 1..Len(positions) :
               /\ positions[k].id \in Range(media)
               /\ positions[k].id \in probeErrors =>
                      /\ positions[k].naturalWidth = fallbackDimension
                      /\ positions[k].naturalHeight = fallbackDimension
                      /\ positions[k].width = positions[k].height
               /\ positions[k].id \notin probeErrors =>
                      /\ positions[k].naturalWidth = NaturalSize(positions[k].id)[1]
                      /\ positions[k].naturalHeight = NaturalSize(positions[k].id)[2]

C13_Witness ==
    /\ phase = "returned"
    /\ Len(media) = 2
    /\ Cardinality(probeErrors) = 1
    /\ shuffled # media

\* C14: with every probe eventually signalling load or error, every pass
\* eventually publishes its layout, whichever probes fail.
C14_PassCompletes == <>(phase = "done" /\ positionedMedia = positions)

C14_Witness ==
    /\ phase = "done"
    /\ positionedMedia = positions
    /\ Len(positions) = 2
    /\ probeErrors = Range(media)

\* the step for a pointer at viewport coordinate c on an axis of the given extent
FixedStep(c, extent) ==
    IF c > extent - 100 THEN 12 ELSE IF c < 100 THEN -12 ELSE 0

\* the scroll offset one auto-scroll step further for a pointer at p
Stepped(p) ==
    [left |-> scroll.left + FixedStep(p[1], Viewport.w),
     top  |-> scroll.top + FixedStep(p[2], Viewport.h)]

\* the scroll offset the pan session s asks for with the pointer at p
Panned(s, p) ==
    [left |-> s.startScrollLeft - (p[1] - s.startX),
     top  |-> s.startScrollTop - (p[2] - s.startY)]

\* C15: a pointer-move delivered to the one open item-drag session writes to
\* the dragged item, on each axis, pointer client position - container origin
\* + current scroll offset - the offset captured at pointer-down.
C15_MoveWritesCandidate ==
    [][(/\ mounted /\ variant = "large"
        /\ Len(listeners) = 1 /\ IsItemDrag(listeners[1])
        /\ Delivers("move"))
       => /\ elemStyle'[listeners[1].index].left
                 = pointer'[1] - 0 + scroll.left - listeners[1].offsetX
          /\ elemStyle'[listeners[1].index].top
                 = pointer'[2] - 0 + scroll.top - listeners[1].offsetY]_vars

C15_Witness ==
    /\ mounted /\ lastEvent = "move"
    /\ Len(listeners) = 1 /\ IsItemDrag(listeners[1])
    /\ scroll.left > 0
    /\ elemStyle[listeners[1].index].left # CssRect[listeners[1].index].x

\* C16: a pointer-move at the position of the pointer-down that opened the
\* drag, with the scroll offset unchanged, writes the position the item had
\* before the pointer-down: the item does not jump when grabbed.
C16_NoJumpOnGrab ==
    [][(/\ mounted /\ variant = "large"
        /\ Len(listeners) = 1 /\ IsItemDrag(listeners[1])
        /\ lastEvent = "down" /\ gesture.phase = "down"
        /\ gesture.item = listeners[1].index
        /\ Delivers("move") /\ pointer' = pointer)
       => /\ elemStyle'[gesture.item].left = gesture.from.x
          /\ elemStyle'[gesture.item].top = gesture.from.y]_vars

C18_PanFollowsPointer ==
    [][(/\ mounted /\ impl = "direct" /\ PanSessions # <<>>
        /\ IsPan(listeners[Len(listeners)]) /\ Delivers("move"))
       => scroll' = Panned(listeners[Len(listeners)], pointer')]_vars

\* C18 as amended: after every pointer-move of a background pan whose
\* listeners run last, the scroll offset is the offset at pan start minus the
\* pointer's displacement since, kept inside the scroll range of the canvas;
\* it depends on the start values and the pointer only, and a pointer back at
\* its start position restores the start offset.
C18_PanFollowsPointerClamped ==
    [][(/\ mounted /\ impl = "direct" /\ PanSessions # <<>>
        /\ IsPan(listeners[Len(listeners)]) /\ Delivers("move"))
       => /\ scroll' = ClampScroll(Panned(listeners[Len(listeners)], pointer'), canvasSize')
          /\ (/\ pointer'[1] = listeners[Len(listeners)].startX
              /\ pointer'[2] = listeners[Len(listeners)].startY
              /\ canvasSize' = listeners[Len(listeners)].canvasSize)
             => /\ scroll'.left = listeners[Len(listeners)].startScrollLeft
                /\ scroll'.top = listeners[Len(listeners)].startScrollTop]_vars

C18_Witness ==
    /\ mounted /\ impl = "direct" /\ lastEvent = "move"
    /\ Len(listeners) = 1 /\ IsPan(listeners[1])
    /\ pointer # <<listeners[1].startX, listeners[1].startY>>
    /\ scroll # [left |-> listeners[1].startScrollLeft, top |-> listeners[1].startScrollTop]
    /\ scroll.left > 0

\* the sessions the event has opened
Opened == SubSeq(listeners', Len(listeners) + 1, Len(listeners'))

\* C19: in the large variant a pointer-down opens a background pan exactly
\* when its target is the background, its button is not the primary one or
\* Shift is held; a primary pointer-down without Shift on an item opens an
\* item drag of that item and no pan; a pointer-down opens one session.
C19_PanRouting ==
    [][(mounted /\ impl = "direct" /\ variant = "large" /\ Delivers("down"))
       => /\ Len(listeners') = Len(listeners) + 1
          /\ SubSeq(listeners', 1, Len(listeners)) = listeners
          /\ IsPan(Opened[1])
                <=> (lastDown'.target = 0 \/ lastDown'.button # 0 \/ lastDown'.shiftKey)
          /\ (lastDown'.target # 0 /\ lastDown'.button = 0 /\ ~lastDown'.shiftKey)
                => Opened[1].kind = "drag" /\ Opened[1].index = lastDown'.target]_vars

C19_Witness ==
    /\ mounted /\ impl = "direct" /\ variant = "large" /\ lastEvent = "down"
    /\ lastDown.target # 0 /\ lastDown.button = 0 /\ lastDown.shiftKey
    /\ Len(listeners) = 2
    /\ listeners[1].kind = "drag" /\ listeners[2].kind = "pan"

\* C20: every pointer-down, pointer-move and pointer-up delivered while a
\* background pan is open leaves every item's position and z-index, the
\* z-counter and the canvas bounds unchanged.
C20_PanLeavesItems ==
    [][(/\ impl = "direct" /\ variant = "large"
        /\ (PanSessions # <<>> \/ (Delivers("down") /\ IsPan(listeners'[Len(listeners')])))
        /\ (Delivers("down") \/ Delivers("move") \/ Delivers("up")))
       => /\ \A i \in Items : /\ elemStyle'[i].left = elemStyle[i].left
                              /\ elemStyle'[i].top = elemStyle[i].top
                              /\ elemStyle'[i].zIndex = elemStyle[i].zIndex
          /\ imageZIndices' = imageZIndices
          /\ nextZIndex' = nextZIndex
          /\ canvasSize' = canvasSize]_vars

\* the pan alone: the same, for the events delivered while no item drag is open
C20_PanAloneLeavesItems ==
    [][(/\ impl = "direct" /\ variant = "large"
        /\ DragSessions = <<>> /\ DragSessions' = <<>>
        /\ (PanSessions # <<>> \/ PanSessions' # <<>>)
        /\ (Delivers("down") \/ Delivers("move") \/ Delivers("up")))
       => /\ elemStyle' = elemStyle
          /\ imageZIndices' = imageZIndices
          /\ nextZIndex' = nextZIndex
          /\ canvasSize' = canvasSize
          /\ customPositions' = customPositions]_vars

\* the pass has published its canvas size
Published == phase \in {"returned", "done"}

\* C21: after a pass over a non-empty list, every placed item's box ends
\* inside the published canvas: x + width <= canvas width and y + height <=
\* canvas height.
C21_BoxesInsideCanvas ==
    (Published /\ media # <<>>)
       => \A k \in 1..Len(positions) :
              /\ positions[k].x + positions[k].width <= containerWidth
              /\ positions[k].y + positions[k].height <= containerHeight

C21_Witness ==
    /\ phase = "done" /\ Len(positionedMedia) = 2
    /\ positions[1].y + positions[1].height > positions[2].y + positions[2].height
    /\ positions[2].x + positions[2].width > positions[1].x + positions[1].width

\* C22: every positioned item has width >= 100 and height >= 100, whatever
\* its natural size (the fallback size included) and its size-category draw.
C22_MinimumSize ==
    /\ \A k \in 1..Len(itemsWithSizes) :
           itemsWithSizes[k].displayWidth >= 100 /\ itemsWithSizes[k].displayHeight >= 100
    /\ \A k \in 1..Len(positions) : positions[k].width >= 100 /\ positions[k].height >= 100
    /\ \A k \in 1..Len(positionedMedia) :
           positionedMedia[k].width >= 100 /\ positionedMedia[k].height >= 100

C22_Witness ==
    /\ phase = "done" /\ Len(positionedMedia) = 2
    /\ \E k \in 1..2 : positions[k].id \in probeErrors /\ positions[k].width = 100
    /\ \E k \in 1..2 : positions[k].id \notin probeErrors /\ positions[k].height = 100

\* C23: the canvas size a pass publishes is at least the viewport on both
\* axes: width >= window.innerWidth and height >= window.innerHeight (taken
\* here for the non-empty item lists; the empty list is the case of C24).
C23_CanvasCoversViewport ==
    (Published /\ media # <<>>)
              => /\ containerWidth >= innerWidth
                 /\ \A innerHeight \in InnerHeights : containerHeight >= innerHeight

\* C24: a pass over an empty list yields no position and a canvas of one
\* viewport: a finite width and height, those of the viewport.
C24_EmptyPass ==
    (Published /\ media = <<>>)
       => /\ positions = <<>>
          /\ containerWidth = innerWidth
          /\ containerHeight # NegInfinity
          /\ containerHeight \in InnerHeights

\* C29: items are placed in non-increasing order of display area: an item
\* placed before another has at least its area.
C29_PlacedByArea ==
    \A p, q \in 1..Len(positions) :
        p < q => positions[p].width * positions[p].height
                     >= positions[q].width * positions[q].height

C29_Witness ==
    /\ phase = "done" /\ Len(positions) = 2
    /\ positions[1].id = shuffled[2]
    /\ positions[1].width * positions[1].height > positions[2].width * positions[2].height

\* the grid points (step 15 from (5, 5)) the scan for a box of the given width visits
RasterPoints(width, occupiedAreas) ==
    LET maxWidth == innerWidth * 3 - width - 10
        bottom == MathMax({0} \cup {a.y + a.height : a \in Range(occupiedAreas)})
        currentMaxHeight == Max(800, bottom) + 400
    IN  {<<5 + 15 * i, 5 + 15 * j>> : i \in 0..100, j \in 0..200} \cap
        {pt \in (0..2000) \X (0..4000) : pt[1] < maxWidth /\ pt[2] < currentMaxHeight}

\* raster order: rows top to bottom, left to right within a row
Earlier(a, b) == a[2] < b[2] \/ (a[2] = b[2] /\ a[1] < b[1])

\* C30: an item the grid scan places lies on a grid point that satisfies the
\* 15% overlap rule against the boxes placed before, and no grid point earlier
\* in raster order satisfies it.
C30_FirstFreeGridPoint ==
    [][(phase = "placing" /\ Len(positions') = Len(positions) + 1
        /\ placedBy'[Len(positions')] = "grid")
       => \E item \in {positions'[Len(positions')]},
             occupiedAreas \in {occupiedAreasOf(positions)} :
            \E points \in {RasterPoints(item.width, occupiedAreas)} :
              /\ <<item.x, item.y>> \in points
              /\ ~isOverlapping(item.x, item.y, item.width, item.height, occupiedAreas)
              /\ \A pt \in points :
                     Earlier(pt, <<item.x, item.y>>)
                        => isOverlapping(pt[1], pt[2], item.width, item.height,
                                         occupiedAreas)]_vars

C30_Witness ==
    /\ phase = "done" /\ Len(positions) = 2
    /\ placedBy[2] = "grid"
    /\ positions[2].x > 5

\* C25: when the gifs list handed to the draggable canvas changes, the canvas
\* size is put back to its initial value: growth from earlier drags is not kept.
C25_ListChangeResetsCanvas ==
    [][(mounted /\ Delivers("gifs")) => canvasSize' = InitialCanvasSize]_vars

\* the cycle of the view modes
Cycle == <<"list", "stack", "large-list", "irregular", "pics-only", "pinterest">>
IndexOf(mode) == CHOOSE i \in 1..Len(Cycle) : Cycle[i] = mode
StepForward(mode) == Cycle[(IndexOf(mode) % Len(Cycle)) + 1]
StepBackward(mode) == Cycle[((IndexOf(mode) + Len(Cycle) - 2) % Len(Cycle)) + 1]

\* the kinds of the last n presses of the trail
LastKinds(n) == {trail[k].kind : k \in (Len(trail) - n + 1)..Len(trail)}

\* C26: with the lightbox closed, Right or D moves the view mode one step
\* forward in the cycle and Left or A one step backward; a press in one
\* direction followed by a press in the other restores the mode, and six
\* presses in one direction return to the mode they started from.
C26_LayoutCycle ==
    /\ [][\A key \in Keys :
            (KeyDown(key) /\ ~isLightboxOpen)
               => /\ key \in {"ArrowRight", "d", "D"} => viewMode' = StepForward(viewMode)
                  /\ key \in {"ArrowLeft", "a", "A"} => viewMode' = StepBackward(viewMode)]_vars
    /\ []((Len(trail) >= 2 /\ LastKinds(2) = {"forward", "backward"})
             => viewMode = trail[Len(trail) - 1].viewMode)
    /\ [](\A dir \in {"forward", "backward"} :
             (Len(trail) >= 6 /\ LastKinds(6) = {dir})
                => viewMode = trail[Len(trail) - 5].viewMode)

C26_Witness ==
    /\ Len(trail) >= 6 /\ LastKinds(6) = {"backward"}
    /\ viewMode = "irregular"
    /\ trail[Len(trail)].viewMode = "pics-only"

\* C27: with the lightbox closed a Shift press flips the visibility of the
\* music player, so two presses in a row restore it; with the lightbox open a
\* Shift press leaves it as it is.
C27_ShiftToggles ==
    /\ [][KeyDown("Shift")
            => isMusicPlayerVisible' = (IF isLightboxOpen THEN isMusicPlayerVisible
                                        ELSE ~isMusicPlayerVisible)]_vars
    /\ []((Len(trail) >= 2 /\ LastKinds(2) = {"shift"})
             => isMusicPlayerVisible = trail[Len(trail) - 1].visible)

C27_Witness ==
    /\ Len(trail) >= 2 /\ LastKinds(2) = {"shift"}
    /\ ~isMusicPlayerVisible
    /\ trail[Len(trail)].visible

\* C28: with the lightbox closed, R changes the image refresh key and nothing
\* else: view mode, music-player visibility and lightbox state stay, the main
\* view is mounted anew and the MusicPlayer is not.
C28_RefreshOnlyRefreshes ==
    [][\A key \in {"r", "R"} :
         (KeyDown(key) /\ ~isLightboxOpen)
            => /\ imageRefreshKey' = imageRefreshKey + 1
               /\ viewMode' = viewMode
               /\ isMusicPlayerVisible' = isMusicPlayerVisible
               /\ isLightboxOpen' = isLightboxOpen
               /\ lightboxGif' = lightboxGif
               /\ isZoomed' = isZoomed
               /\ "MusicPlayer" \notin remounted'
               /\ "main" \in remounted']_vars

C28_Witness ==
    /\ trail # <<>> /\ trail[Len(trail)].kind = "refresh"
    /\ imageRefreshKey = trail[Len(trail)].refreshKey + 1
    /\ viewMode = "stack"
    /\ remounted = {"main"}

\* C31: an item placed by the last-resort fallback lies strictly below the
\* bottom edge of every item placed before it, and overlaps none of them.
C31_FallbackBelowAll ==
    \A k \in 1..Len(positions) :
        placedBy[k] = "fallback"
           => \A j \in 1..(k - 1) :
                  /\ positions[k].y > positions[j].y + positions[j].height
                  /\ OverlapArea(positions[k].x, positions[k].y, positions[k].width,
                                 positions[k].height, positions[j]) = 0

C31_Witness ==
    /\ phase = "done" /\ Len(positions) = 2
    /\ placedBy[2] = "fallback"
    /\ positions[2].x < positions[1].x + positions[1].width
    /\ positions[1].x < positions[2].x + positions[2].width

\* C38: an item whose display width is less than containerWidth - 15 is
\* placed by the grid scan, whatever was placed before it: neither the random
\* probes nor the bottom fallback are taken for it.
C38_GridAlwaysFinds ==
    \A k \in 1..Len(positions) :
        positions[k].width < innerWidth * 3 - 15 => placedBy[k] = "grid"

C38_Witness ==
    /\ phase = "done" /\ Len(positions) = 2
    /\ positions[2].width < innerWidth * 3 - 15
    /\ placedBy[2] = "grid"
    /\ positions[2].y > 5

\* the dimensions the probe of item id resolves with (part_007:42-47)
Probed(id) ==
    IF id \in probeErrors
    THEN [naturalWidth |-> fallbackDimension, naturalHeight |-> fallbackDimension]
    ELSE [naturalWidth |-> NaturalSize(id)[1], naturalHeight |-> NaturalSize(id)[2]]

\* C32: the layout does not depend on the order in which the probes settle:
\* every item enters sizing with the dimensions of its own probe, the items
\* are sized in the order of the shuffled array, which no probe changes, and
\* every placed record carries the dimensions of its own probe.
C32_ProbeOrderIrrelevant ==
    /\ [](/\ \A id \in DOMAIN dimensions : dimensions[id] \in {Pending, Probed(id)}
          /\ phase = "sizing" =>
                 \A k \in 1..Len(itemsWithSizes) :
                     /\ itemsWithSizes[k].id = shuffled[k]
                     /\ itemsWithSizes[k].naturalWidth = Probed(shuffled[k]).naturalWidth
                     /\ itemsWithSizes[k].naturalHeight = Probed(shuffled[k]).naturalHeight
          /\ \A k \in 1..Len(positions) :
                 /\ positions[k].naturalWidth = Probed(positions[k].id).naturalWidth
                 /\ positions[k].naturalHeight = Probed(positions[k].id).naturalHeight)
    /\ [][phase = "probing" => shuffled' = shuffled]_vars

C32_Witness ==
    /\ phase = "done" /\ outOfOrder
    /\ Len(positionedMedia) = 2
    /\ probeErrors = {}

\* the media prop changed after the running pass captured it: a later pass was started
Superseded == Len(media) # Len(shuffled)

\* C37: when two planner passes overlap, the layout and the canvas size shown
\* once both have finished are those of the pass started last (here the pass
\* over the empty list), and all three come from that one pass.
C37_LastStartedPassWins ==
    (phase = "done" /\ Superseded)
        => /\ positionedMedia = <<>>
           /\ containerWidth = Max(Plus(MathMax({}), containerMargin), innerWidth)
           /\ containerHeight = Plus(MathMax({}), containerMargin)

\* C36: after every pointer-move of an item drag (part_003) the canvas is at
\* least 500 px wider than the candidate x of every dragged item and at least
\* 500 px taller than its candidate y.
C36_CanvasCoversCandidate ==
    [][(impl = "direct" /\ mounted /\ Delivers("move"))
          => \A k \in 1..Len(listeners) :
                 listeners[k].kind = "drag"
                    => /\ canvasSize'.width >= elemStyle'[listeners[k].index].left + buffer
                       /\ canvasSize'.height >= elemStyle'[listeners[k].index].top + buffer]_vars

\* C33: in CollageView.tsx no pointer-move of an open item drag changes
\* customPositions; the persisted positions change only at a pointer-up, and
\* then only the entry of the item that was being dragged.
C33_PersistOnlyAtUp ==
    [][impl = "state"
          => /\ Delivers("move") => customPositions' = customPositions
             /\ customPositions' # customPositions
                   => /\ Delivers("up")
                      /\ dragState.isDragging
                      /\ \A i \in Items \ {dragState.draggedItem} :
                             customPositions'[i] = customPositions[i]]_vars

C33_Witness ==
    /\ impl = "state" /\ lastEvent = "up"
    /\ gesture.moved /\ gesture.item \in Items
    /\ customPositions[gesture.item] # NullPos
    /\ \E i \in Items : customPositions[i] = NullPos

\* C34: after a pointer-move of the one open item drag (part_003) has been
\* handled, auto-scroll included, the grabbed point of the item is under the
\* pointer: position - resulting scroll + container origin + grab offset =
\* pointer client position, on each axis.
C34_GrabPointUnderPointer ==
    [][(/\ impl = "direct" /\ mounted /\ Delivers("move")
        /\ Len(listeners) = 1 /\ listeners[1].kind = "drag")
          => /\ elemStyle'[listeners[1].index].left - scroll'.left + 0
                    + listeners[1].offsetX = pointer'[1]
             /\ elemStyle'[listeners[1].index].top - scroll'.top + 0
                    + listeners[1].offsetY = pointer'[2]]_vars

\* C39: in the large variant (part_003) a primary-button pointer-down on an
\* item followed by a pointer-up with no pointer-move in between commits: the
\* item gets the counter's value as z-index, above every item committed
\* before, the counter advances by 1, and the item's position and the canvas
\* size are unchanged.
C39_ClickCommits ==
    [][(/\ impl = "direct" /\ variant = "large" /\ mounted
        /\ lastEvent = "down" /\ lastDown.button = 0 /\ lastDown.target \in Items
        /\ listeners # <<>>
        /\ listeners[Len(listeners)].kind = "drag"
        /\ listeners[Len(listeners)].index = lastDown.target
        /\ Delivers("up"))
          => /\ imageZIndices'[lastDown.target] = nextZIndex
             /\ elemStyle'[lastDown.target].zIndex = nextZIndex
             /\ \A j \in Items \ {lastDown.target} :
                    imageZIndices'[j] < imageZIndices'[lastDown.target]
             /\ nextZIndex' = nextZIndex + 1
             /\ elemStyle'[lastDown.target].left = elemStyle[lastDown.target].left
             /\ elemStyle'[lastDown.target].top = elemStyle[lastDown.target].top
             /\ canvasSize' = canvasSize]_vars

\* C35: while the one open drag session (part_003) drags an item, that item's
\* z-index is strictly greater than the z-index of every other item, however
\* many commits came before the gesture.
C35_DraggedOnTop ==
    (/\ impl = "direct" /\ mounted
     /\ Len(listeners) = 1 /\ listeners[1].kind = "drag"
     /\ elemStyle[listeners[1].index].pointerEvents = "none")
        => \A j \in Items \ {listeners[1].index} :
               elemStyle[j].zIndex < elemStyle[listeners[1].index].zIndex
====
